---- MODULE Spec2Model ----
(***************************************************************************)
(* Connection-lifecycle core of GoHTTP's server package (server.go):       *)
(* NewServer, acceptLoop, expireLoop, read, Read, register, unregister,    *)
(* bury and Shutdown, as concurrent tasks over the Server's fields.        *)
(*                                                                         *)
(* Language semantics the code relies on (Go of 2010, the dialect with     *)
(* os.Error and the closed() builtin):                                     *)
(*  - close(ch) marks the channel closed for senders; a value sent to a    *)
(*    closed channel is ignored; a receive on a closed channel returns     *)
(*    the zero value without blocking;                                     *)
(*  - closed(ch) is true only after at least one such zero value has been  *)
(*    received from ch.                                                    *)
(*                                                                         *)
(* Time is discrete.  time.Nanoseconds() is unbounded, so instead of the   *)
(* absolute stamp the model keeps, per connection, idle = now - stamp,     *)
(* saturated at 2*tmo: expireLoop reads nothing else of the stamp.       *)
(* Time advances only while every task is at one of its suspension points  *)
(* (admission acquire, accept, connection read, channel send/receive,      *)
(* sleep); lock-protected and local code takes no time.                    *)
(***************************************************************************)
EXTENDS Integers, FiniteSets, TLC

\* ---- bounds ----
MaxConns == 2        \* connections the listener ever hands out
MaxFdlim == 2        \* largest capacity passed to NewServer
MaxTmo == 2          \* largest timeout passed to NewServer
NumReaders == 2      \* consumer tasks calling Read()

\* ---- program constant ----
MinTmo == 2          \* NewServer panics when tmo < 2

Conns == 1..MaxConns
Readers == 1..NumReaders

VARIABLES
  fdlim,      \* capacity given to srv.fdl.Init
  tmo,        \* srv.tmo
  listen,     \* srv.listen # nil
  lclosed,    \* the listener has been closed (l.Close() in Shutdown)
  conns,      \* srv.conns: the registry
  qchClosed,  \* close(srv.qch) has run
  qchSeen,    \* a zero value has been received from the closed srv.qch
  fdlCount,   \* slots of srv.fdl currently held
  lk,         \* holder of srv.lk, or "free"
  raw,        \* per connection: "none" (not accepted yet), "open", "closed"
  attached,   \* per connection: its ServerConn still owns the raw connection
  idle,       \* per open connection: now - stamp, saturated
  released,   \* per connection: how often its slot was released
  acceptPc, acceptC,               \* acceptLoop: position, connection in hand
  expirePc, kills, expireC, sleepLeft,  \* expireLoop
  readerPc,   \* per connection: position of its srv.read task
  readFailed, \* connections whose ssc.Read() returned an error
  shutPc,     \* Shutdown: position
  readPc, readQ, readAfter, \* per consumer: Read() call
  returned,   \* per connection: how often Read() returned its Query
  errHanded,  \* the terminal Query was received by a Read()
  errReturned \* how often Read() returned the terminal error

cfgVars == <<fdlim, tmo>>
chanVars == <<qchClosed, qchSeen>>
connVars == <<raw, attached, idle, released, fdlCount>>
acceptVars == <<acceptPc, acceptC>>
expireVars == <<expirePc, kills, expireC, sleepLeft>>
readerVars == <<readerPc, readFailed>>
readVars == <<readPc, readQ, readAfter, returned, errHanded, errReturned>>
vars == <<fdlim, tmo, listen, lclosed, conns, qchClosed, qchSeen, fdlCount, lk,
          raw, attached, idle, released, acceptPc, acceptC, expirePc, kills,
          expireC, sleepLeft, readerPc, readFailed, shutPc, readPc, readQ,
          readAfter, returned, errHanded, errReturned>>

IdleCap == 2 * tmo

\* values on srv.qch and results of Read(): "query" carries its connection
NoQuery == [kind |-> "none", conn |-> 0]
NilQuery == [kind |-> "nil", conn |-> 0]
ErrQuery == [kind |-> "err", conn |-> 0]
Query(c) == [kind |-> "query", conn |-> c]
EBADF == [kind |-> "EBADF", conn |-> 0]

\* NewServer: the state after construction, both background tasks started.
Init ==
  /\ fdlim \in 1..MaxFdlim
  /\ tmo \in MinTmo..MaxTmo
  /\ listen = TRUE
  /\ lclosed = FALSE
  /\ conns = {}
  /\ qchClosed = FALSE
  /\ qchSeen = FALSE
  /\ fdlCount = 0
  /\ lk = "free"
  /\ raw = [c \in Conns |-> "none"]
  /\ attached = [c \in Conns |-> FALSE]
  /\ idle = [c \in Conns |-> 0]
  /\ released = [c \in Conns |-> 0]
  /\ acceptPc = "check"
  /\ acceptC = 0
  /\ expirePc = "check"
  /\ kills = {}
  /\ expireC = 0
  /\ sleepLeft = 0
  /\ readerPc = [c \in Conns |-> "none"]
  /\ readFailed = {}
  /\ shutPc = "none"
  /\ readPc = [r \in Readers |-> "idle"]
  /\ readQ = [r \in Readers |-> NoQuery]
  /\ readAfter = [r \in Readers |-> FALSE]
  /\ returned = [c \in Conns |-> 0]
  /\ errHanded = FALSE
  /\ errReturned = 0

\* ---- collaborators -------------------------------------------------------

\* FDLimiter.Lock can take a slot.
FdlCanLock == fdlCount < fdlim

\* closed(srv.qch)
closed == qchSeen

\* stampedServerConn.touch on connection c
touch(c) == idle' = [idle EXCEPT ![c] = 0]

\* RunOnCloseConn.Close: closes the raw connection, then runs the hook
\* func() { srv.fdl.Unlock() }.
CloseConn(c) ==
  /\ raw' = [raw EXCEPT ![c] = "closed"]
  /\ fdlCount' = fdlCount - 1
  /\ released' = [released EXCEPT ![c] = @ + 1]
  /\ idle' = [idle EXCEPT ![c] = 0]

\* ServerConn.Close: hands the raw connection out once; nil afterwards.
Detach(c) == attached' = [attached EXCEPT ![c] = FALSE]

\* ---- register / unregister / bury ---------------------------------------

\* register succeeds (returns true)
registerOk == ~closed

\* (variant: unregister leaves the entry in the map)
unregister_Keep(c) == conns' = conns

\* unregister: srv.conns[ssc] = 0, false
unregister(c) == conns' = conns \ {c}

\* (variant: bury closes whatever ssc.Close() returned, without the nil test)
buryGotConn_NoNilTest(c) == TRUE

\* bury: the test "c != nil" on the result of ssc.Close()
buryGotConn(c) == attached[c]

\* ---- acceptLoop ----------------------------------------------------------

\* the connection the listener hands out next
NextConn == CHOOSE c \in Conns : raw[c] = "none" /\ \A d \in Conns : raw[d] = "none" => c <= d

acceptLoopCheck ==
  /\ acceptPc = "check"
  /\ lk = "free"
  /\ acceptPc' = IF listen THEN "lock" ELSE "exit"
  /\ UNCHANGED <<cfgVars, listen, lclosed, conns, chanVars, lk, connVars, acceptC,
                 expireVars, readerVars, shutPc, readVars>>

\* (variant: the accept loop counts the slot but does not wait for one)
acceptLoopLock_NoWait ==
  /\ acceptPc = "lock"
  /\ fdlCount' = fdlCount + 1
  /\ acceptPc' = "accept"
  /\ UNCHANGED <<cfgVars, listen, lclosed, conns, chanVars, lk, raw, attached, idle,
                 released, acceptC, expireVars, readerVars, shutPc, readVars>>

acceptLoopLock ==
  /\ acceptPc = "lock"
  /\ FdlCanLock
  /\ fdlCount' = fdlCount + 1
  /\ acceptPc' = "accept"
  /\ UNCHANGED <<cfgVars, listen, lclosed, conns, chanVars, lk, raw, attached, idle,
                 released, acceptC, expireVars, readerVars, shutPc, readVars>>

\* l.Accept() succeeds, SetReadTimeout succeeds, the connection is wrapped
\* with the close-hook and stamped.
acceptLoopAccept ==
  /\ acceptPc = "accept"
  /\ ~lclosed
  /\ \E c \in Conns : raw[c] = "none"
  /\ LET c == NextConn IN
       /\ raw' = [raw EXCEPT ![c] = "open"]
       /\ attached' = [attached EXCEPT ![c] = TRUE]
       /\ idle' = [idle EXCEPT ![c] = 0]
       /\ acceptC' = c
  /\ acceptPc' = "register"
  /\ UNCHANGED <<cfgVars, listen, lclosed, conns, chanVars, lk, fdlCount, released,
                 expireVars, readerVars, shutPc, readVars>>

\* l.Accept() fails: the slot is given back, the error is to be sent.
acceptLoopAcceptErr ==
  /\ acceptPc = "accept"
  /\ fdlCount' = fdlCount - 1
  /\ acceptPc' = "senderr"
  /\ UNCHANGED <<cfgVars, listen, lclosed, conns, chanVars, lk, raw, attached, idle,
                 released, acceptC, expireVars, readerVars, shutPc, readVars>>

\* l.Accept() succeeds but SetReadTimeout fails: c.Close(), srv.fdl.Unlock().
acceptLoopTimeoutErr ==
  /\ acceptPc = "accept"
  /\ ~lclosed
  /\ \E c \in Conns : raw[c] = "none"
  /\ LET c == NextConn IN
       /\ raw' = [raw EXCEPT ![c] = "closed"]
       /\ released' = [released EXCEPT ![c] = @ + 1]
  /\ fdlCount' = fdlCount - 1
  /\ acceptPc' = "senderr"
  /\ UNCHANGED <<cfgVars, listen, lclosed, conns, chanVars, lk, attached, idle,
                 acceptC, expireVars, readerVars, shutPc, readVars>>

\* srv.qch <- newQueryErr(err), taken by consumer r
acceptLoopSendErr(r) ==
  /\ acceptPc = "senderr"
  /\ ~qchClosed
  /\ readPc[r] = "recv"
  /\ readQ' = [readQ EXCEPT ![r] = ErrQuery]
  /\ readPc' = [readPc EXCEPT ![r] = "check"]
  /\ errHanded' = TRUE
  /\ acceptPc' = "failed"
  /\ UNCHANGED <<cfgVars, listen, lclosed, conns, chanVars, lk, connVars, acceptC,
                 expireVars, readerVars, shutPc, readAfter, returned, errReturned>>

\* srv.qch <- newQueryErr(err) on the closed channel: the value is ignored
acceptLoopSendErrClosed ==
  /\ acceptPc = "senderr"
  /\ qchClosed
  /\ acceptPc' = "failed"
  /\ UNCHANGED <<cfgVars, listen, lclosed, conns, chanVars, lk, connVars, acceptC,
                 expireVars, readerVars, shutPc, readVars>>

\* go srv.read(ssc): the new task enters ssc.Read(), which touches the stamp
spawnRead(c) ==
  /\ readerPc' = [readerPc EXCEPT ![c] = "read"]
  /\ readFailed' = readFailed
  /\ acceptC' = 0
  /\ acceptPc' = "check"

\* ok := srv.register(ssc) succeeds; go srv.read(ssc)
acceptLoopRegister ==
  /\ acceptPc = "register"
  /\ lk = "free"
  /\ IF registerOk
       THEN /\ conns' = conns \cup {acceptC}
            /\ touch(acceptC)
            /\ spawnRead(acceptC)
       ELSE /\ acceptPc' = "regfail"
            /\ UNCHANGED <<conns, idle, readerVars, acceptC>>
  /\ UNCHANGED <<cfgVars, listen, lclosed, chanVars, lk, raw, attached, released,
                 fdlCount, expireVars, shutPc, readVars>>

\* if !ok { ssc.Close(); c.Close() } -- and the loop body goes on to
\* go srv.read(ssc)
acceptLoopRegFail ==
  /\ acceptPc = "regfail"
  /\ Detach(acceptC)
  /\ CloseConn(acceptC)
  /\ spawnRead(acceptC)
  /\ UNCHANGED <<cfgVars, listen, lclosed, conns, chanVars, lk,
                 expireVars, shutPc, readVars>>

acceptLoop ==
  \/ acceptLoopCheck
  \/ acceptLoopLock
  \/ acceptLoopAccept
  \/ acceptLoopAcceptErr
  \/ acceptLoopTimeoutErr
  \/ \E r \in Readers : acceptLoopSendErr(r)
  \/ acceptLoopSendErrClosed
  \/ acceptLoopRegister
  \/ acceptLoopRegFail

\* ---- expireLoop ----------------------------------------------------------

\* (variant: the threshold is taken in the wrong unit)
Stale_WrongUnit(c) == idle[c] >= 1000 * tmo

\* now - ssc.GetStamp() >= srv.tmo
Stale(c) == idle[c] >= tmo

\* (variant: the sweeper sleeps two intervals)
SleepTime_Double == 2 * tmo

\* the argument of time.Sleep
SleepTime == tmo

\* (variant: the sweeper does not test srv.listen)
expireLoopCheck_NoExit ==
  /\ \/ expirePc = "check"
     \/ expirePc = "sleep" /\ sleepLeft = 0
  /\ lk = "free"
  /\ kills' = {c \in conns : Stale(c)}
  /\ expirePc' = "kill"
  /\ UNCHANGED <<cfgVars, listen, lclosed, conns, chanVars, lk, connVars, acceptVars,
                 expireC, sleepLeft, readerVars, shutPc, readVars>>

\* top of the cycle: exit when the listener is gone, else collect the kills
expireLoopCheck ==
  /\ \/ expirePc = "check"
     \/ expirePc = "sleep" /\ sleepLeft = 0
  /\ lk = "free"
  /\ IF listen
       THEN /\ kills' = {c \in conns : Stale(c)}
            /\ expirePc' = "kill"
       ELSE /\ kills' = {}
            /\ expirePc' = "exit"
  /\ UNCHANGED <<cfgVars, listen, lclosed, conns, chanVars, lk, connVars, acceptVars,
                 expireC, sleepLeft, readerVars, shutPc, readVars>>

\* srv.bury(ssc) for the next element of kills: srv.unregister(ssc)
expireLoopUnregister(c) ==
  /\ expirePc = "kill"
  /\ c \in kills
  /\ lk = "free"
  /\ unregister(c)
  /\ kills' = kills \ {c}
  /\ expireC' = c
  /\ expirePc' = "ssclose"
  /\ UNCHANGED <<cfgVars, listen, lclosed, chanVars, lk, connVars, acceptVars,
                 sleepLeft, readerVars, shutPc, readVars>>

\* c, _, _ := ssc.Close()
expireLoopSsClose ==
  /\ expirePc = "ssclose"
  /\ IF buryGotConn(expireC)
       THEN /\ expirePc' = "cclose"
            /\ expireC' = expireC
       ELSE /\ expirePc' = "kill"
            /\ expireC' = 0
  /\ Detach(expireC)
  /\ UNCHANGED <<cfgVars, listen, lclosed, conns, chanVars, lk, raw, idle, released,
                 fdlCount, acceptVars, kills, sleepLeft, readerVars, shutPc, readVars>>

\* c.Close()
expireLoopCClose ==
  /\ expirePc = "cclose"
  /\ CloseConn(expireC)
  /\ expireC' = 0
  /\ expirePc' = "kill"
  /\ UNCHANGED <<cfgVars, listen, lclosed, conns, chanVars, lk, attached, acceptVars,
                 kills, sleepLeft, readerVars, shutPc, readVars>>

\* all kills buried: time.Sleep(srv.tmo)
expireLoopSleep ==
  /\ expirePc = "kill"
  /\ kills = {}
  /\ sleepLeft' = SleepTime
  /\ expirePc' = "sleep"
  /\ UNCHANGED <<cfgVars, listen, lclosed, conns, chanVars, lk, connVars, acceptVars,
                 kills, expireC, readerVars, shutPc, readVars>>

expireLoop ==
  \/ expireLoopCheck
  \/ \E c \in Conns : expireLoopUnregister(c)
  \/ expireLoopSsClose
  \/ expireLoopCClose
  \/ expireLoopSleep

\* ---- srv.read: one Reader task per connection ----------------------------

\* (variant: a failed read is reported like a request)
readOnError_Report == "send"

\* where the task goes when ssc.Read() has returned an error
readOnError == "unregister"

\* ssc.Read() returns a request
readOk(c) ==
  /\ readerPc[c] = "read"
  /\ raw[c] = "open"
  /\ touch(c)
  /\ readerPc' = [readerPc EXCEPT ![c] = "send"]
  /\ UNCHANGED <<readFailed, cfgVars, listen, lclosed, conns, chanVars, lk, raw, attached, released,
                 fdlCount, acceptVars, expireVars, shutPc, readVars>>

\* ssc.Read() returns EAGAIN: the read deadline (srv.tmo) elapsed
readTimeout(c) ==
  /\ readerPc[c] = "read"
  /\ raw[c] = "open"
  /\ idle[c] >= tmo
  /\ touch(c)
  /\ readerPc' = [readerPc EXCEPT ![c] = readOnError]
  /\ readFailed' = readFailed \cup {c}
  /\ UNCHANGED <<cfgVars, listen, lclosed, conns, chanVars, lk, raw, attached, released,
                 fdlCount, acceptVars, expireVars, shutPc, readVars>>

\* ssc.Read() returns another error (transport failure, connection closed)
readErr(c) ==
  /\ readerPc[c] = "read"
  /\ IF raw[c] = "open" THEN touch(c) ELSE idle' = idle
  /\ readerPc' = [readerPc EXCEPT ![c] = readOnError]
  /\ readFailed' = readFailed \cup {c}
  /\ UNCHANGED <<cfgVars, listen, lclosed, conns, chanVars, lk, raw, attached, released,
                 fdlCount, acceptVars, expireVars, shutPc, readVars>>

\* srv.bury(ssc): srv.unregister(ssc)
readUnregister(c) ==
  /\ readerPc[c] = "unregister"
  /\ lk = "free"
  /\ unregister(c)
  /\ readerPc' = [readerPc EXCEPT ![c] = "ssclose"]
  /\ UNCHANGED <<readFailed, cfgVars, listen, lclosed, chanVars, lk, connVars, acceptVars,
                 expireVars, shutPc, readVars>>

\* c, _, _ := ssc.Close()
readSsClose(c) ==
  /\ readerPc[c] = "ssclose"
  /\ readerPc' = [readerPc EXCEPT ![c] = IF buryGotConn(c) THEN "cclose" ELSE "buried"]
  /\ Detach(c)
  /\ UNCHANGED <<readFailed, cfgVars, listen, lclosed, conns, chanVars, lk, raw, idle, released,
                 fdlCount, acceptVars, expireVars, shutPc, readVars>>

\* c.Close()
readCClose(c) ==
  /\ readerPc[c] = "cclose"
  /\ CloseConn(c)
  /\ readerPc' = [readerPc EXCEPT ![c] = "buried"]
  /\ UNCHANGED <<readFailed, cfgVars, listen, lclosed, conns, chanVars, lk, attached, acceptVars,
                 expireVars, shutPc, readVars>>

\* (variant: the Reader task unregisters the connection as it hands it over)
readSend_Unregister(c, r) ==
  /\ readerPc[c] = "send"
  /\ ~qchClosed
  /\ readPc[r] = "recv"
  /\ readQ' = [readQ EXCEPT ![r] = Query(c)]
  /\ readPc' = [readPc EXCEPT ![r] = "check"]
  /\ readerPc' = [readerPc EXCEPT ![c] = "sent"]
  /\ unregister(c)
  /\ UNCHANGED <<readFailed, cfgVars, listen, lclosed, chanVars, lk, connVars, acceptVars,
                 expireVars, shutPc, readAfter, returned, errHanded, errReturned>>

\* srv.qch <- &Query{srv, ssc, req, ...}, taken by consumer r
readSend(c, r) ==
  /\ readerPc[c] = "send"
  /\ ~qchClosed
  /\ readPc[r] = "recv"
  /\ readQ' = [readQ EXCEPT ![r] = Query(c)]
  /\ readPc' = [readPc EXCEPT ![r] = "check"]
  /\ readerPc' = [readerPc EXCEPT ![c] = "sent"]
  /\ UNCHANGED <<readFailed, cfgVars, listen, lclosed, conns, chanVars, lk, connVars, acceptVars,
                 expireVars, shutPc, readAfter, returned, errHanded, errReturned>>

\* the same send on the closed channel: the value is ignored
readSendClosed(c) ==
  /\ readerPc[c] = "send"
  /\ qchClosed
  /\ readerPc' = [readerPc EXCEPT ![c] = "dropped"]
  /\ UNCHANGED <<readFailed, cfgVars, listen, lclosed, conns, chanVars, lk, connVars, acceptVars,
                 expireVars, shutPc, readVars>>

read(c) ==
  \/ readOk(c)
  \/ readTimeout(c)
  \/ readErr(c)
  \/ readUnregister(c)
  \/ readSsClose(c)
  \/ readCClose(c)
  \/ \E r \in Readers : readSend(c, r)
  \/ readSendClosed(c)

\* ---- Shutdown ------------------------------------------------------------

\* l, srv.listen = srv.listen, nil; close(srv.qch)   (under srv.lk)
ShutdownBegin ==
  /\ shutPc = "none"
  /\ lk = "free"
  /\ listen' = FALSE
  /\ qchClosed' = TRUE
  /\ shutPc' = "lclose"
  /\ UNCHANGED <<cfgVars, lclosed, conns, qchSeen, lk, connVars, acceptVars,
                 expireVars, readerVars, readVars>>

\* l.Close(), then srv.lk.Lock() before the loop over srv.conns
ShutdownLock ==
  /\ shutPc = "lclose"
  /\ lk = "free"
  /\ lclosed' = TRUE
  /\ lk' = "Shutdown"
  /\ shutPc' = "closing"
  /\ UNCHANGED <<cfgVars, listen, conns, chanVars, connVars, acceptVars,
                 expireVars, readerVars, readVars>>

\* the loop over srv.conns: ssc.Close(), c.Close() if non-nil, delete;
\* then srv.lk.Unlock() and return
ShutdownCloseAll ==
  /\ shutPc = "closing"
  /\ LET got == {c \in conns : attached[c]} IN
       /\ attached' = [c \in Conns |-> IF c \in conns THEN FALSE ELSE attached[c]]
       /\ raw' = [c \in Conns |-> IF c \in got THEN "closed" ELSE raw[c]]
       /\ released' = [c \in Conns |-> IF c \in got THEN released[c] + 1 ELSE released[c]]
       /\ idle' = [c \in Conns |-> IF c \in got THEN 0 ELSE idle[c]]
       /\ fdlCount' = fdlCount - Cardinality(got)
  /\ conns' = {}
  /\ lk' = "free"
  /\ shutPc' = "done"
  /\ UNCHANGED <<cfgVars, listen, lclosed, chanVars, acceptVars,
                 expireVars, readerVars, readVars>>

Shutdown ==
  \/ ShutdownBegin
  \/ ShutdownLock
  \/ ShutdownCloseAll

\* ---- Read: the consumer --------------------------------------------------

\* a consumer calls Read() and blocks in q := <-srv.qch
ReadBegin(r) ==
  /\ readPc[r] = "idle"
  /\ readPc' = [readPc EXCEPT ![r] = "recv"]
  /\ readAfter' = [readAfter EXCEPT ![r] = (shutPc = "done")]
  /\ UNCHANGED <<cfgVars, listen, lclosed, conns, chanVars, lk, connVars, acceptVars,
                 expireVars, readerVars, shutPc, readQ, returned, errHanded, errReturned>>

\* q := <-srv.qch on the closed channel: the zero value
ReadRecvClosed(r) ==
  /\ readPc[r] = "recv"
  /\ qchClosed
  /\ readQ' = [readQ EXCEPT ![r] = NilQuery]
  /\ qchSeen' = TRUE
  /\ readPc' = [readPc EXCEPT ![r] = "check"]
  /\ UNCHANGED <<cfgVars, listen, lclosed, conns, qchClosed, lk, connVars, acceptVars,
                 expireVars, readerVars, shutPc, readAfter, returned, errHanded,
                 errReturned>>

\* (variant: Read() without the closed() test)
ReadResult_NoClosedTest(q) ==
  IF q.kind = "err" THEN ErrQuery
  ELSE q

\* what Read() returns for the received q
ReadResult(q) ==
  IF closed THEN EBADF
  ELSE IF q.kind = "err" THEN ErrQuery
  ELSE q

\* the rest of Read(): the closed() test under srv.lk, q.getError(), return
ReadReturn(r) ==
  /\ readPc[r] = "check"
  /\ lk = "free"
  /\ LET res == ReadResult(readQ[r]) IN
       /\ returned' = IF res.kind = "query"
                        THEN [returned EXCEPT ![res.conn] = @ + 1]
                        ELSE returned
       /\ errReturned' = IF res.kind = "err" THEN errReturned + 1 ELSE errReturned
  /\ readQ' = [readQ EXCEPT ![r] = NoQuery]
  /\ readPc' = [readPc EXCEPT ![r] = "idle"]
  /\ readAfter' = [readAfter EXCEPT ![r] = FALSE]
  /\ UNCHANGED <<cfgVars, listen, lclosed, conns, chanVars, lk, connVars, acceptVars,
                 expireVars, readerVars, shutPc, errHanded>>

Read(r) ==
  \/ ReadBegin(r)
  \/ ReadRecvClosed(r)
  \/ ReadReturn(r)

\* ---- time ----------------------------------------------------------------

\* every task is at a suspension point, and the sweeper's sleep is not over
AllBlocked ==
  /\ acceptPc \in {"lock", "accept", "senderr", "failed", "exit"}
  /\ acceptPc = "lock" => ~FdlCanLock
  /\ expirePc \in {"sleep", "exit"}
  /\ expirePc = "sleep" => sleepLeft > 0
  /\ \A c \in Conns : readerPc[c] \in {"none", "read", "send", "sent", "dropped", "buried"}
  /\ shutPc \in {"none", "done"}
  /\ \A r \in Readers : readPc[r] \in {"idle", "recv"}

Min(a, b) == IF a < b THEN a ELSE b

\* one unit of time passes
Tick ==
  /\ AllBlocked
  /\ idle' = [c \in Conns |-> IF raw[c] = "open" THEN Min(idle[c] + 1, IdleCap) ELSE idle[c]]
  /\ sleepLeft' = IF expirePc = "sleep" THEN sleepLeft - 1 ELSE sleepLeft
  /\ UNCHANGED <<cfgVars, listen, lclosed, conns, chanVars, lk, raw, attached, released,
                 fdlCount, acceptVars, expirePc, kills, expireC, readerVars, shutPc, readVars>>

Next ==
  \/ acceptLoop
  \/ expireLoop
  \/ \E c \in Conns : read(c)
  \/ Shutdown
  \/ \E r \in Readers : Read(r)
  \/ Tick

Spec == Init /\ [][Next]_vars

\* A server of capacity 1 whose tasks keep running: a started Shutdown() and
\* a started Read() run on, and the accept loop takes a free slot.
InitCap1 == Init /\ fdlim = 1

FairSpec ==
  /\ InitCap1
  /\ [][Next]_vars
  /\ WF_vars(acceptLoopLock)
  /\ WF_vars(ShutdownLock)
  /\ WF_vars(ShutdownCloseAll)
  /\ \A r \in Readers : WF_vars(ReadRecvClosed(r)) /\ WF_vars(ReadReturn(r))

\* A server that is never shut down and whose listener never fails, with
\* clients waiting to connect and a consumer that keeps calling Read().
acceptLoopHealthy ==
  \/ acceptLoopCheck
  \/ acceptLoopLock
  \/ acceptLoopAccept
  \/ acceptLoopRegister

readReturns(c) ==
  \/ readOk(c)
  \/ readTimeout(c)
  \/ readErr(c)

readBury(c) ==
  \/ readUnregister(c)
  \/ readSsClose(c)
  \/ readCClose(c)

LiveNext ==
  \/ acceptLoopHealthy
  \/ expireLoop
  \/ \E c \in Conns : readReturns(c)
  \/ \E c \in Conns : readBury(c)
  \/ \E c \in Conns, r \in Readers : readSend(c, r)
  \/ \E r \in Readers : ReadBegin(r)
  \/ \E r \in Readers : ReadReturn(r)
  \/ Tick

LiveSpec ==
  /\ Init
  /\ [][LiveNext]_vars
  /\ WF_vars(acceptLoopHealthy)
  /\ WF_vars(expireLoop)
  /\ WF_vars(Tick)
  /\ \A c \in Conns : WF_vars(readReturns(c)) /\ WF_vars(readBury(c))
  /\ \A c \in Conns : \A r \in Readers : WF_vars(readSend(c, r))
  /\ \A r \in Readers : WF_vars(ReadBegin(r)) /\ WF_vars(ReadReturn(r))

\* Every task keeps running and time keeps passing: a task that can take a
\* step does so (the runtime schedules every goroutine, a connection read
\* returns at its deadline at the latest, a sleep ends).  Consumers start no
\* new Read() once Shutdown() has been called; a Read() in progress goes on.
\* (A Read() after Shutdown() takes no time in the model, so consumers that
\* call it again and again would stop the clock.)
ReadBeginRunning(r) == shutPc = "none" /\ ReadBegin(r)

TaskNext ==
  \/ acceptLoop
  \/ expireLoop
  \/ \E c \in Conns : read(c)
  \/ Shutdown
  \/ \E r \in Readers : ReadBeginRunning(r)
  \/ \E r \in Readers : ReadRecvClosed(r)
  \/ \E r \in Readers : ReadReturn(r)
  \/ Tick

TaskFairSpec ==
  /\ InitCap1
  /\ [][TaskNext]_vars
  /\ WF_vars(acceptLoop)
  /\ WF_vars(expireLoop)
  /\ \A c \in Conns : WF_vars(read(c))
  /\ \A r \in Readers : WF_vars(ReadRecvClosed(r)) /\ WF_vars(ReadReturn(r))
  /\ WF_vars(Tick)

\* ---- the locks, step by step ----------------------------------------------
\* The actions above take and release srv.lk and the stamp lock ssc.lk within
\* one step.  Here the two places where a task works on a second lock while
\* it holds a first one, or waits for a lock another task may hold, are
\* taken apart: expireLoop's scan (srv.lk held across ssc.GetStamp() of every
\* registered connection) and the touch deferred in stampedServerConn.Read.
\* The holder of ssc.lk is read off the positions: the Reader task of c at
\* "touch", or the sweeper at "stamp" with expireC = c.

\* registered connections the scan has not come to yet (expireC: the last one)
ScanRest == {c \in conns : c > expireC}

ScanNextConn == CHOOSE c \in ScanRest : \A d \in ScanRest : c <= d

\* (variant: the sweeper leaves its critical section without srv.lk.Unlock())
expireLoopUnlk_KeepLock ==
  /\ expirePc = "scan"
  /\ ScanRest = {}
  /\ lk' = lk
  /\ expirePc' = "kill"
  /\ expireC' = 0
  /\ UNCHANGED <<cfgVars, listen, lclosed, conns, chanVars, connVars, acceptVars,
                 kills, sleepLeft, readerVars, shutPc, readVars>>

\* srv.lk.Unlock() after the scan
expireLoopUnlk ==
  /\ expirePc = "scan"
  /\ ScanRest = {}
  /\ lk' = "free"
  /\ expirePc' = "kill"
  /\ expireC' = 0
  /\ UNCHANGED <<cfgVars, listen, lclosed, conns, chanVars, connVars, acceptVars,
                 kills, sleepLeft, readerVars, shutPc, readVars>>

\* srv.lk.Lock() at the top of the cycle; exit (unlocking) if srv.listen == nil
expireLoopLk ==
  /\ \/ expirePc = "check"
     \/ expirePc = "sleep" /\ sleepLeft = 0
  /\ lk = "free"
  /\ IF listen
       THEN lk' = "expireLoop" /\ expirePc' = "scan"
       ELSE lk' = lk /\ expirePc' = "exit"
  /\ kills' = {}
  /\ expireC' = 0
  /\ UNCHANGED <<cfgVars, listen, lclosed, conns, chanVars, connVars, acceptVars,
                 sleepLeft, readerVars, shutPc, readVars>>

\* ssc.GetStamp(): ssc.lk.Lock(), under srv.lk
expireLoopGetStampLock ==
  /\ expirePc = "scan"
  /\ ScanRest # {}
  /\ readerPc[ScanNextConn] # "touch"
  /\ expireC' = ScanNextConn
  /\ expirePc' = "stamp"
  /\ UNCHANGED <<cfgVars, listen, lclosed, conns, chanVars, lk, connVars, acceptVars,
                 kills, sleepLeft, readerVars, shutPc, readVars>>

\* ssc.GetStamp() returns (ssc.lk.Unlock()); the staleness test
expireLoopGetStampUnlock ==
  /\ expirePc = "stamp"
  /\ kills' = IF Stale(expireC) THEN kills \cup {expireC} ELSE kills
  /\ expirePc' = "scan"
  /\ UNCHANGED <<cfgVars, listen, lclosed, conns, chanVars, lk, connVars, acceptVars,
                 expireC, sleepLeft, readerVars, shutPc, readVars>>

\* ssc.ServerConn.Read() returns a request; the deferred touch is next
readOkL(c) ==
  /\ readerPc[c] = "read"
  /\ raw[c] = "open"
  /\ readerPc' = [readerPc EXCEPT ![c] = "touchw"]
  /\ UNCHANGED <<readFailed, cfgVars, listen, lclosed, conns, chanVars, lk, connVars,
                 acceptVars, expireVars, shutPc, readVars>>

\* ssc.ServerConn.Read() returns an error; the deferred touch is next
readErrL(c) ==
  /\ readerPc[c] = "read"
  /\ readerPc' = [readerPc EXCEPT ![c] = "touchw"]
  /\ readFailed' = readFailed \cup {c}
  /\ UNCHANGED <<cfgVars, listen, lclosed, conns, chanVars, lk, connVars,
                 acceptVars, expireVars, shutPc, readVars>>

\* touch: ssc.lk.Lock()
touchLock(c) ==
  /\ readerPc[c] = "touchw"
  /\ ~(expirePc = "stamp" /\ expireC = c)
  /\ readerPc' = [readerPc EXCEPT ![c] = "touch"]
  /\ UNCHANGED <<readFailed, cfgVars, listen, lclosed, conns, chanVars, lk, connVars,
                 acceptVars, expireVars, shutPc, readVars>>

\* touch: the stamp is set, ssc.lk.Unlock(); ssc.Read() returns to srv.read
touchUnlock(c) ==
  /\ readerPc[c] = "touch"
  /\ IF raw[c] = "open" THEN touch(c) ELSE idle' = idle
  /\ readerPc' = [readerPc EXCEPT ![c] = IF c \in readFailed THEN readOnError ELSE "send"]
  /\ UNCHANGED <<readFailed, cfgVars, listen, lclosed, conns, chanVars, lk, raw, attached,
                 released, fdlCount, acceptVars, expireVars, shutPc, readVars>>

LockNext ==
  \/ acceptLoop
  \/ expireLoopLk
  \/ expireLoopGetStampLock
  \/ expireLoopGetStampUnlock
  \/ expireLoopUnlk
  \/ \E c \in Conns : expireLoopUnregister(c)
  \/ expireLoopSsClose
  \/ expireLoopCClose
  \/ expireLoopSleep
  \/ \E c \in Conns : readOkL(c)
  \/ \E c \in Conns : readErrL(c)
  \/ \E c \in Conns : touchLock(c)
  \/ \E c \in Conns : touchUnlock(c)
  \/ \E c \in Conns : readBury(c)
  \/ \E c \in Conns, r \in Readers : readSend(c, r)
  \/ \E c \in Conns : readSendClosed(c)
  \/ Shutdown
  \/ \E r \in Readers : Read(r)
  \/ Tick

\* a task that can take or release a lock does so
LockSpec ==
  /\ InitCap1
  /\ [][LockNext]_vars
  /\ WF_vars(expireLoopGetStampLock)
  /\ WF_vars(expireLoopGetStampUnlock)
  /\ WF_vars(expireLoopUnlk)
  /\ \A c \in Conns : WF_vars(touchLock(c)) /\ WF_vars(touchUnlock(c))
  /\ WF_vars(ShutdownCloseAll)

\* ---- properties ----------------------------------------------------------

OpenConns == {c \in Conns : raw[c] = "open"}

\* a consumer holds the received Query of connection c and has not returned
InHand(c) == \E r \in Readers : readQ[r] = Query(c)

\* C1: at every moment the number of accepted connections whose raw
\* connection is not yet closed is at most fdlim, and so is the number of
\* slots held.
C1_OpenWithinCapacity ==
  /\ Cardinality(OpenConns) <= fdlim
  /\ fdlCount <= fdlim

\* C1 witness: the capacity is fully used and the accept loop waits for a slot
C1_Witness ==
  /\ Cardinality(OpenConns) = fdlim
  /\ acceptPc = "lock"
  /\ \E c \in Conns : raw[c] = "none"

\* C2: once Shutdown() has returned, the registry is empty (and stays so).
C2_EmptyAfterShutdown == shutPc = "done" => conns = {}

\* C3: a Read() that starts after Shutdown() has returned cannot block (the
\* channel it receives from is closed) and returns EBADF with no Query; a
\* Read() that is in progress when Shutdown() has run is unblocked and returns.
C3_ReadAfterShutdown ==
  /\ [](\A r \in Readers :
          /\ (shutPc # "none" /\ readPc[r] = "recv") => qchClosed
          /\ (readAfter[r] /\ readPc[r] = "check") => ReadResult(readQ[r]) = EBADF)
  /\ \A r \in Readers : (shutPc # "none" /\ readPc[r] # "idle") ~> (readPc[r] = "idle")

\* C3 witness: a Read() begun after Shutdown() returned is about to return
C3_Witness ==
  \E r \in Readers : readAfter[r] /\ readPc[r] = "check" /\ shutPc = "done"

\* C4: after a failed accept, once the accept loop has terminated and no
\* consumer still holds the terminal Query, Read() has returned the terminal
\* error exactly once.
C4_ExactlyOneTerminalError ==
  (acceptPc = "failed" /\ \A r \in Readers : readQ[r] # ErrQuery) => errReturned = 1

\* C5: a connection whose read failed is never reported through Read(); when
\* its Reader task has ended it is out of the registry, detached, and closed
\* with its slot released (or the sweeper is at that very close).
C5_FailedReadIsSilent ==
  \A c \in readFailed :
    /\ returned[c] = 0
    /\ ~InHand(c)
    /\ readerPc[c] \notin {"send", "sent", "dropped"}
    /\ readerPc[c] = "buried" =>
         /\ c \notin conns
         /\ ~attached[c]
         /\ \/ raw[c] = "closed" /\ released[c] = 1
            \/ expirePc = "cclose" /\ expireC = c

\* C5 witness: a read failed and the Reader task buried the connection itself
C5_Witness ==
  \E c \in readFailed : readerPc[c] = "buried" /\ raw[c] = "closed" /\ listen

\* C6: with capacity 1 and a connection open, the accept loop stays in its
\* acquire and no further connection is accepted, rejected or dropped; once
\* no connection is open the accept loop gets the slot and goes on to accept.
C6_Backpressure ==
  /\ [][(fdlim = 1 /\ acceptPc = "lock" /\ OpenConns # {})
          => /\ acceptPc' = "lock"
             /\ \A d \in Conns : raw[d] = "none" => raw'[d] = "none"]_vars
  /\ (fdlim = 1 /\ acceptPc = "lock" /\ OpenConns = {}) ~> (acceptPc = "accept")

\* C6 witness: the second connection is open after the first one was closed
\* while the accept loop had been waiting for its slot
C6_Witness ==
  /\ fdlim = 1
  /\ raw[1] = "closed"
  /\ readerPc[1] = "sent"
  /\ raw[2] = "open"

\* C7: while the server is not shut down, an open connection is never idle
\* for two full timeout intervals.
C7_EvictionLatency ==
  \A c \in Conns : (listen /\ raw[c] = "open") => idle[c] < 2 * tmo

\* C7 witness: a registered connection reaches the last instant before the bound
C7_Witness ==
  \E c \in conns : listen /\ idle[c] = 2 * tmo - 1 /\ readerPc[c] = "sent"

\* C8: a Query handed over by a Reader task is returned by exactly one Read().
C8_HandedOverReturnedOnce ==
  \A c \in Conns : (readerPc[c] = "sent" /\ ~InHand(c)) => returned[c] = 1

\* C9: the slot of a connection is released exactly once, when its raw
\* connection is closed, whoever buries it and however often; the slot count
\* is exactly the open connections plus the slot of a pending accept, and a
\* closed connection is out of the registry (a further bury changes nothing).
C9_ReleasedExactlyOnce ==
  /\ \A c \in Conns : released[c] = IF raw[c] = "closed" THEN 1 ELSE 0
  /\ fdlCount = Cardinality(OpenConns) + IF acceptPc = "accept" THEN 1 ELSE 0
  /\ \A c \in Conns : raw[c] = "closed" => c \notin conns

\* C9 witness: the Reader task and the sweeper bury the same connection at once
C9_Witness ==
  \E c \in Conns :
    /\ readerPc[c] \in {"ssclose", "buried"}
    /\ expirePc = "ssclose" /\ expireC = c
    /\ ~attached[c]

\* every slot is held by a connection whose Query was returned by Read(), the
\* accept loop waits for a slot, and connection d waits to be accepted
SlotsHeldByServed(d) ==
  /\ listen
  /\ acceptPc = "lock"
  /\ Cardinality(OpenConns) = fdlim
  /\ \A c \in OpenConns : returned[c] = 1
  /\ raw[d] = "none"
  /\ \A e \in Conns : raw[e] = "none" => d <= e

\* C10: when every slot is held by a served connection that is never replied
\* to or closed, the sweeper buries those connections, the waiting connection
\* is accepted, and its Query is returned by Read() unless its own read fails.
C10_SweepUnblocksAccept ==
  \A d \in Conns :
    /\ SlotsHeldByServed(d) ~> (raw[d] # "none" /\ \A c \in Conns : c < d => raw[c] = "closed")
    /\ SlotsHeldByServed(d) ~> (returned[d] = 1 \/ d \in readFailed)

\* C10 witness: the waiting connection was accepted after the sweep and its
\* Query has been returned
C10_Witness ==
  /\ fdlim = 1
  /\ raw[1] = "closed"
  /\ returned[1] = 1
  /\ returned[2] = 1

\* C11: a Reader task is started only for a connection that register has
\* just put into the registry; after a failed register the accept loop closes
\* the connection and starts no Reader task for it.
C11_ReaderOnlyIfRegistered ==
  [][\A c \in Conns :
       (readerPc[c] = "none" /\ readerPc'[c] # "none") => c \in conns']_vars

\* the accept loop, the sweeper and every started Reader task have returned
AllTasksEnded ==
  /\ acceptPc \in {"exit", "failed"}
  /\ expirePc = "exit"
  /\ \A c \in Conns : readerPc[c] \in {"none", "sent", "dropped", "buried"}

\* C12: once Shutdown() has returned and every task has run to its end, no
\* admission slot is held and no accepted connection is open (from there on
\* nothing can release a slot, so a slot still held is held forever).
C12_SlotsReleasedAfterShutdown ==
  (shutPc = "done" /\ AllTasksEnded) => (fdlCount = 0 /\ OpenConns = {})

\* C13: after Shutdown() has returned, the accept loop, the sweeper and every
\* Reader task eventually terminate.
C13_TasksTerminate == (shutPc = "done") ~> AllTasksEnded

\* C13 witness: everything has ended after Shutdown(); a Reader task had been
\* blocked in its send and the accept loop in its acquire or accept
C13_Witness ==
  /\ shutPc = "done"
  /\ AllTasksEnded
  /\ acceptPc = "failed"
  /\ \E c \in Conns : readerPc[c] = "dropped"
  /\ \E c \in Conns : readerPc[c] = "buried"

\* the step is taken by the task that holds srv.lk across steps (the other
\* critical sections lock and unlock within one step, and make no call that
\* can block on I/O, the gate, the channel or the clock)
HolderStep == lk = "Shutdown" /\ shutPc' # shutPc

\* C14: no task makes a blocking call while it holds srv.lk: a step of the
\* lock holder closes no listener and no connection, and releases no slot
\* through the close-hook.
C14_NoBlockingCallUnderLock ==
  [][HolderStep => /\ lclosed' = lclosed
                   /\ raw' = raw
                   /\ fdlCount' = fdlCount]_vars

\* a step of the Reader task of c on its success path: ssc.Read() returns a
\* request, or the send of the Query completes
ReaderOkStep(c) ==
  \/ readerPc[c] = "read" /\ readerPc'[c] = "send"
  \/ readerPc[c] = "send" /\ readerPc'[c] # "send"

\* a step of the sweeper's bury or of Shutdown()'s force-close loop
SweeperOrShutdownStep ==
  \/ expirePc \in {"kill", "ssclose", "cclose"} /\ expirePc' # expirePc
  \/ shutPc = "closing" /\ shutPc' = "done"

RegisteredNotClosed(c) == readerPc[c] # "none" /\ attached[c]

\* a bury of c has unregistered it and is about to call ssc.Close()
MidBury(c) ==
  \/ readerPc[c] = "ssclose"
  \/ expirePc = "ssclose" /\ expireC = c

\* C16: whenever srv.lk is free the registry holds exactly the connections
\* that were registered and not since buried or force-closed, each of them
\* open; register never finds its connection present; a connection enters
\* the registry only in register and only if it never was in it before.
C16_RegistryExact ==
  /\ [](lk = "free" =>
          /\ \A c \in Conns :
               c \in conns <=> (RegisteredNotClosed(c) /\ ~MidBury(c))
          /\ \A c \in conns : raw[c] = "open"
          /\ acceptPc = "register" => acceptC \notin conns)
  /\ [][\A c \in Conns :
          (c \notin conns /\ c \in conns')
            => (acceptPc = "register" /\ acceptC = c /\ readerPc[c] = "none")]_vars

\* C16 witness: one connection was registered and buried, another one is
\* registered, and the lock is free
C16_Witness ==
  /\ lk = "free"
  /\ \E c \in Conns : readerPc[c] = "buried" /\ raw[c] = "closed" /\ c \notin conns
  /\ conns # {}

\* a send on srv.qch completes in this step: the terminal Query of the accept
\* loop, or the Query of a Reader task
SendStep ==
  \/ acceptPc = "senderr" /\ acceptPc' = "failed"
  \/ \E c \in Conns : readerPc[c] = "send" /\ readerPc'[c] # "send"

\* C17: no task sends on srv.qch once Shutdown() has closed it.
C17_NoSendAfterClose == [][SendStep => ~qchClosed]_vars

\* C18: while the server is not shut down, at the moment a Reader task hands
\* its Query to a Read() the connection of that Query is in the registry and
\* open.
C18_HandedOverIsLive ==
  [][\A c \in Conns :
       (listen /\ readerPc[c] = "send" /\ readerPc'[c] = "sent")
         => (c \in conns /\ raw[c] = "open")]_vars

\* the tasks: the accept loop, the sweeper, Shutdown(), the Reader task of
\* each connection and each consumer's Read()
TaskSet ==
  {<<"acceptLoop", 0>>, <<"expireLoop", 0>>, <<"Shutdown", 0>>}
    \cup {<<"read", c>> : c \in Conns} \cup {<<"Read", r>> : r \in Readers}

\* who holds srv.lk, and who holds the stamp lock of c
LkHolder == IF lk = "free" THEN {} ELSE {<<lk, 0>>}

StampHolder(c) ==
  IF readerPc[c] = "touch" THEN {<<"read", c>>}
  ELSE IF expirePc = "stamp" /\ expireC = c THEN {<<"expireLoop", 0>>}
  ELSE {}

\* task t is at a srv.lk.Lock()
WantsLk(t) ==
  \/ t = <<"acceptLoop", 0>> /\ acceptPc \in {"check", "register"}
  \/ t = <<"expireLoop", 0>> /\ \/ expirePc = "check"
                                \/ expirePc = "sleep" /\ sleepLeft = 0
                                \/ expirePc = "kill" /\ kills # {}
  \/ t = <<"Shutdown", 0>> /\ shutPc = "lclose"
  \/ t[1] = "read" /\ readerPc[t[2]] = "unregister"
  \/ t[1] = "Read" /\ readPc[t[2]] = "check"

\* the connections at whose ssc.lk.Lock() task t is
WantsStamp(t) ==
  IF t = <<"expireLoop", 0>> /\ expirePc = "scan" /\ ScanRest # {} THEN {ScanNextConn}
  ELSE IF t[1] = "read" /\ readerPc[t[2]] = "touchw" THEN {t[2]}
  ELSE {}

\* the tasks holding a lock that t is waiting for
WaitsFor(t) ==
  (IF WantsLk(t) THEN LkHolder ELSE {})
    \cup UNION {StampHolder(c) : c \in WantsStamp(t)}

RECURSIVE WaitChain(_, _)
WaitChain(S, n) ==
  IF n = 0 THEN S
  ELSE WaitChain(S \cup UNION {WaitsFor(u) : u \in S}, n - 1)

\* t waits, directly or through other waiting tasks, for a lock it holds
\* itself
InCycle(t) == t \in WaitChain(WaitsFor(t), Cardinality(TaskSet))

LockHolders == LkHolder \cup UNION {StampHolder(c) : c \in Conns}

\* C19: no cycle of tasks each waiting for a lock the next one holds; the
\* accept loop holds no lock while it waits at the admission gate; srv.lk,
\* once held (by the sweeper across its GetStamp calls, by Shutdown() across
\* the closes and slot releases), is released again, and a Reader task
\* waiting for its stamp lock gets it.
C19_NoLockDeadlock ==
  /\ [](\A t \in TaskSet : ~InCycle(t))
  /\ [](acceptPc = "lock" => <<"acceptLoop", 0>> \notin LockHolders)
  /\ (lk # "free") ~> (lk = "free")
  /\ \A c \in Conns : (readerPc[c] = "touchw") ~> (readerPc[c] # "touchw")

\* C19 witness: the sweeper holds srv.lk and waits for the stamp lock that a
\* Reader task holds, while the accept loop waits at the gate
C19_Witness ==
  /\ lk = "expireLoop"
  /\ expirePc = "scan"
  /\ ScanRest # {}
  /\ readerPc[ScanNextConn] = "touch"
  /\ acceptPc = "lock"
  /\ ~FdlCanLock

====
